---- MODULE Spec2Model ----
(***************************************************************************)
(* A model of ocp-what-merged (src/main.go): the payload resolver, the     *)
(* repository URL parser, the commit-message sanitizer and the concurrent  *)
(* aggregation of processRepositories over the gowp work pool.             *)
(*                                                                         *)
(* A Go string is modelled as the sequence of its bytes, so that prefix    *)
(* tests, splitting, slicing, len and trimming are computed and not        *)
(* assumed. The byte of an ASCII character is written as that character;   *)
(* the two bytes of the character U+00E9 are written "0xC3" and "0xA9".    *)
(***************************************************************************)
EXTENDS Integers, Sequences, FiniteSets, Bags, TLC

VARIABLES
    \* ---- processRepositories (main.go:110-157) ----
    repositories,   \* the repositories argument
    options,        \* ProcessOptions (Concurrency)
    pc,             \* where the calling goroutine of processRepositories is
    sched,          \* number of tasks handed to wp.Do so far (loop index of line 145)
    waitingQueue,   \* the pool's FIFO of queued task indexes
    closed,         \* the pool's closed flag (set when a task returns an error)
    errChan,        \* the pool's one-slot error channel
    status,         \* per task: where its closure is
    response,       \* per task: what client.Repositories.ListCommits answered
    result,         \* per task: what getRepositoryChanges returned
    change,         \* per task: the closure's local list
    changes,        \* the shared collection
    commitsLock,    \* holder of the mutex (0 = unlocked)
    ret,            \* what processRepositories returned
    captured,       \* per task: the element of repositories its closure's pointer refers to
    request,        \* per task: the arguments of its ListCommits call
    now,            \* the wall clock, as time.Now() reads it
    \* ---- parseRepositoryOrgName (main.go:59-68) ----
    repository,     \* the argument
    parsed,         \* the returned triple
    \* ---- sanitizeMessage (main.go:93-108) ----
    msg,            \* the argument of the first call
    sanitized,      \* results of the calls made so far, oldest first
    \* ---- getRepositoriesFromPayload (main.go:159-190) ----
    payload,        \* what the oc subprocess produced
    repos,          \* what getRepositoriesFromPayload returned
    \* ---- main (main.go:192-241) ----
    mainpc,         \* where main is
    report          \* what the table printer wrote to standard output

procVars == <<repositories, options, pc, sched, waitingQueue, closed, errChan,
              status, response, result, change, changes, commitsLock, ret,
              captured, request, now>>
parseVars == <<repository, parsed>>
sanVars == <<msg, sanitized>>
payVars == <<payload, repos>>
mainVars == <<mainpc, report>>
vars == <<procVars, parseVars, sanVars, payVars, mainVars>>

None == "none"

\* the value of a result variable before the call has returned
NoCall == [returned |-> FALSE]

\* the flag defaults of main
DefaultSince == "1d"
NoOptions == [Concurrency |-> 1, Since |-> DefaultSince]

\* the instant at which the run starts
StartTime == 0

\* standard output before the table printer has written
NoReport == [printed |-> FALSE]

(***************************************************************************)
(* Literals of the source.                                                 *)
(***************************************************************************)
Prefix == <<"h", "t", "t", "p", "s", ":", "/", "/", "g", "i", "t", "h", "u", "b", ".", "c", "o", "m", "/">>
SignedOffBy == <<"S", "i", "g", "n", "e", "d", "-", "o", "f", "f", "-", "b", "y">>
Marker == <<" ", ".", ".", ".">>
MergeMarker == <<"M", "e", "r", "g", "e", " ", "p", "u", "l", "l", " ", "r", "e", "q", "u", "e", "s", "t">>
SourceLocationKey == "io.openshift.build.source-location"

\* the text with its capital letters in lower case (the marker has one)
lowerCase(s) == [i \in 1..Len(s) |-> IF s[i] = "M" THEN "m" ELSE IF s[i] = "R" THEN "r" ELSE s[i]]

\* the UTF-8 encoding of U+00E9, a character of two bytes
EAcute == <<"0xC3", "0xA9">>
LineLimit == 80

(***************************************************************************)
(* The functions of package strings that the source calls.                 *)
(***************************************************************************)
HasPrefix(s, p) == Len(s) >= Len(p) /\ SubSeq(s, 1, Len(p)) = p

TrimPrefix(s, p) == IF HasPrefix(s, p) THEN SubSeq(s, Len(p) + 1, Len(s)) ELSE s

Contains(s, sub) ==
    \E i \in 0..(Len(s) - Len(sub)) : SubSeq(s, i + 1, i + Len(sub)) = sub

\* strings.Split(s, sep) for a one-character separator: one more part than
\* there are separators, empty parts kept, <<s>> when there is none.
RECURSIVE Split(_, _)
Split(s, sep) ==
    IF \A i \in 1..Len(s) : s[i] # sep
    THEN <<s>>
    ELSE LET i == CHOOSE k \in 1..Len(s) :
                      s[k] = sep /\ \A j \in 1..(k - 1) : s[j] # sep
         IN <<SubSeq(s, 1, i - 1)>> \o Split(SubSeq(s, i + 1, Len(s)), sep)

RECURSIVE Join(_, _)
Join(parts, sep) ==
    IF Len(parts) = 0 THEN <<>>
    ELSE IF Len(parts) = 1 THEN parts[1]
    ELSE parts[1] \o <<sep>> \o Join(Tail(parts), sep)

\* unicode.IsSpace on the characters the model's strings are made of
IsSpace(c) == c \in {" ", "\t", "\r", "\n"}

TrimSpace(s) ==
    LET keep == {i \in 1..Len(s) : ~IsSpace(s[i])}
    IN IF keep = {} THEN <<>>
       ELSE LET lo == CHOOSE i \in keep : \A j \in keep : i <= j
                hi == CHOOSE i \in keep : \A j \in keep : i >= j
            IN SubSeq(s, lo, hi)

(***************************************************************************)
(* parseRepositoryOrgName                                                  *)
(***************************************************************************)
NotParsed == [returned |-> TRUE, organization |-> <<>>, name |-> <<>>, ok |-> FALSE]

parseRepositoryOrgName(r) ==
    IF ~HasPrefix(r, Prefix) THEN NotParsed
    ELSE LET parts == Split(TrimPrefix(r, Prefix), "/")
         IN IF Len(parts) # 2 THEN NotParsed
            ELSE [returned |-> TRUE, organization |-> parts[1], name |-> parts[2], ok |-> TRUE]

(***************************************************************************)
(* sanitizeMessage                                                         *)
(***************************************************************************)
\* line 98: the lines the loop skips
skipLine(l) == Contains(l, SignedOffBy) \/ Len(TrimSpace(l)) = 0

\* lines 102-104: l[0:80] + " ..." for a line longer than 80
truncateAlways(l) == SubSeq(l, 1, IF Len(l) > LineLimit THEN LineLimit ELSE Len(l)) \o Marker

truncateLate(l) == IF Len(l) > LineLimit THEN SubSeq(l, 1, LineLimit + 1) \o Marker ELSE l

truncate(l) == IF Len(l) > LineLimit THEN SubSeq(l, 1, LineLimit) \o Marker ELSE l

RECURSIVE sanitizeLines(_)
sanitizeLines(lines) ==
    IF lines = <<>> THEN <<>>
    ELSE IF skipLine(Head(lines)) THEN sanitizeLines(Tail(lines))
    ELSE <<TrimSpace(truncate(Head(lines)))>> \o sanitizeLines(Tail(lines))

sanitizeMessage(m) == Join(sanitizeLines(Split(m, "\n")), "\n")

(***************************************************************************)
(* getRepositoriesFromPayload: the loop over the tags (lines 169-189).     *)
(* A tag's Annotations is a function from the keys it has to their values. *)
(***************************************************************************)
hasRepositoryNever(list, r) == FALSE

hasRepository(list, r) == \E k \in 1..Len(list) : list[k] = r

RECURSIVE collectRepositories(_, _)
collectRepositories(tags, acc) ==
    IF tags = <<>> THEN acc
    ELSE LET t == Head(tags)
             ok == SourceLocationKey \in DOMAIN t.Annotations
         IN IF ~ok THEN collectRepositories(Tail(tags), acc)
            ELSE LET sourceLocation == t.Annotations[SourceLocationKey]
                 IN IF Len(sourceLocation) = 0
                    THEN collectRepositories(Tail(tags), acc)
                    ELSE IF hasRepository(acc, sourceLocation)
                    THEN collectRepositories(Tail(tags), acc)
                    ELSE collectRepositories(Tail(tags), Append(acc, sourceLocation))

(***************************************************************************)
(* Bounds of the model and the inputs drawn within them.                   *)
(***************************************************************************)
MaxTail == 4
MaxLines == 2
MaxTags == 3

SeqsUpTo(S, n) == UNION {[1..k -> S] : k \in 0..n}

RepoA == Prefix \o <<"o", "/", "a">>
RepoB == Prefix \o <<"o", "/", "b">>
RepoBad == <<"g", "i", "t", ":", "o", "/", "c">>

\* repository references: with and without the host prefix, with near misses
\* of it, followed by any short path over {o, r, /}
ParseHeads ==
    {<<>>, Prefix, SubSeq(Prefix, 1, Len(Prefix) - 1),
     <<"h", "t", "t", "p", ":", "/", "/", "g", "i", "t", "h", "u", "b", ".", "c", "o", "m", "/">>}
ParseInputs == {h \o t : h \in ParseHeads, t \in SeqsUpTo({"o", "r", "/"}, MaxTail)}

\* commit-message lines: short ones, ones around the limit of 80, with
\* surrounding whitespace, with a signature, blank ones, and ones of
\* two-byte characters
Rep(c, n) == [i \in 1..n |-> c]
RepE(n) == [i \in 1..(2 * n) |-> IF i % 2 = 1 THEN EAcute[1] ELSE EAcute[2]]
RunLens == {0, LineLimit - 1, LineLimit, LineLimit + 1}
LineSet ==
    {pre \o Rep("x", n) \o post :
        pre \in {<<>>, <<" ">>}, n \in RunLens,
        post \in {<<>>, <<" ", "y">>, <<"\t">>, SignedOffBy}}
    \cup {Rep(" ", LineLimit) \o <<"x">>, Rep(" ", 6) \o Rep("x", LineLimit - 5)}
    \cup {RepE(LineLimit \div 2 + 1), <<" ">> \o RepE(LineLimit \div 2),
          <<" ">> \o RepE(LineLimit \div 2 - 1) \o <<"a", "y">>}
Messages == {Join(ls, "\n") : ls \in SeqsUpTo(LineSet, MaxLines)}

\* tags: without annotations, with another annotation only, with an empty
\* source location, with one of three source locations
TagSet ==
    {[Name |-> "t", Annotations |-> <<>>],
     [Name |-> "t", Annotations |-> ("other" :> RepoA)],
     [Name |-> "t", Annotations |-> (SourceLocationKey :> <<>>)],
     [Name |-> "t", Annotations |-> (SourceLocationKey :> RepoA)],
     [Name |-> "t", Annotations |-> (SourceLocationKey :> RepoB) @@ ("other" :> RepoA)],
     [Name |-> "t", Annotations |-> (SourceLocationKey :> RepoBad)]}
Payloads ==
    {[kind |-> "exit", tags |-> <<>>], [kind |-> "badjson", tags |-> <<>>]}
    \cup {[kind |-> "json", tags |-> ts] : ts \in SeqsUpTo(TagSet, MaxTags)}

(***************************************************************************)
(* The values of the variables a specification does not use.               *)
(***************************************************************************)
ProcIdle ==
    /\ repositories = <<>> /\ options = NoOptions /\ pc = None
    /\ sched = 0 /\ waitingQueue = <<>> /\ closed = FALSE /\ errChan = <<>>
    /\ status = <<>> /\ response = <<>> /\ result = <<>> /\ change = <<>>
    /\ changes = <<>>
    /\ commitsLock = 0 /\ ret = NoCall
    /\ captured = <<>> /\ request = <<>> /\ now = StartTime
ParseIdle == repository = <<>> /\ parsed = NoCall
SanIdle == msg = <<>> /\ sanitized = <<>>
PayIdle == payload = [kind |-> None, tags |-> <<>>] /\ repos = NoCall
MainIdle == mainpc = None /\ report = NoReport

(***************************************************************************)
(* Specification of parseRepositoryOrgName: one call on any input.         *)
(***************************************************************************)
ParseInit == repository \in ParseInputs /\ parsed = NoCall /\ ProcIdle /\ SanIdle /\ PayIdle /\ MainIdle

ParseCall ==
    /\ ~parsed.returned
    /\ parsed' = parseRepositoryOrgName(repository)
    /\ UNCHANGED <<repository, procVars, sanVars, payVars, mainVars>>

ParseNext == ParseCall

SpecParse == ParseInit /\ [][ParseNext]_vars

(***************************************************************************)
(* Specification of sanitizeMessage: a call on any message, then a call on *)
(* the message the first call returned.                                    *)
(***************************************************************************)
SanInit == msg \in Messages /\ sanitized = <<>> /\ ProcIdle /\ ParseIdle /\ PayIdle /\ MainIdle

SanitizeCall ==
    /\ Len(sanitized) = 0
    /\ sanitized' = <<sanitizeMessage(msg)>>
    /\ UNCHANGED <<msg, procVars, parseVars, payVars, mainVars>>

SanitizeAgain ==
    /\ Len(sanitized) = 1
    /\ sanitized' = Append(sanitized, sanitizeMessage(sanitized[1]))
    /\ UNCHANGED <<msg, procVars, parseVars, payVars, mainVars>>

SanNext == SanitizeCall \/ SanitizeAgain

SpecSanitize == SanInit /\ [][SanNext]_vars

(***************************************************************************)
(* Specification of getRepositoriesFromPayload: one call on whatever the   *)
(* subprocess produced.                                                    *)
(***************************************************************************)
getRepositoriesFromPayload(p) ==
    IF p.kind = "exit" THEN [returned |-> TRUE, repositories |-> <<>>, err |-> "exit status"]
    ELSE IF p.kind = "badjson" THEN [returned |-> TRUE, repositories |-> <<>>, err |-> "unmarshal"]
    ELSE [returned |-> TRUE, repositories |-> collectRepositories(p.tags, <<>>), err |-> None]

PayInit == payload \in Payloads /\ repos = NoCall /\ ProcIdle /\ ParseIdle /\ SanIdle /\ MainIdle

PayloadCall ==
    /\ ~repos.returned
    /\ repos' = getRepositoriesFromPayload(payload)
    /\ UNCHANGED <<payload, procVars, parseVars, sanVars, mainVars>>

PayNext == PayloadCall

SpecPayload == PayInit /\ [][PayNext]_vars

(***************************************************************************)
(* processRepositories.                                                    *)
(*                                                                         *)
(* A commit of the remote API is [HTMLURL, Message, Date]; a Change keeps  *)
(* the fields the aggregation reads (its display time, rendered by         *)
(* humanize.Time against the wall clock, is left out).                     *)
(***************************************************************************)
MaxRepos == 3
MaxConcurrency == 2

NoError == <<>>
ParseError(repo) == <<"unable to parse repository organization or name", repo>>

Letters == <<"a", "b", "c", "d", "e", "f">>
GoodRepo(k) == Prefix \o <<"o", "/", Letters[k]>>

\* the repository lists: references that parse, in a fixed order, and at most
\* one reference that does not parse, at any position
ListWithBadAt(n, p) ==
    [i \in 1..n |-> IF i < p THEN GoodRepo(i) ELSE IF i = p THEN RepoBad ELSE GoodRepo(i - 1)]
RepoLists ==
    {[i \in 1..n |-> GoodRepo(i)] : n \in 0..MaxRepos}
    \cup UNION {{ListWithBadAt(n, p) : p \in 1..n} : n \in 1..MaxRepos}

\* what the remote API may answer for a repository: an error, or one of a
\* few commit lists (newest first), with a merge commit and a signed commit
MsgFix == <<"f", "i", "x">>
MsgMerge == MergeMarker \o <<" ", "#", "7">>
MsgSigned == <<"a", "d", "d", "\n">> \o SignedOffBy \o <<":", " ", "z">>
CommitFix(o, n) == [HTMLURL |-> <<o, n, 1>>, Message |-> MsgFix, Date |-> 2]
CommitMerge(o, n) == [HTMLURL |-> <<o, n, 2>>, Message |-> MsgMerge, Date |-> 3]
CommitSigned(o, n) == [HTMLURL |-> <<o, n, 3>>, Message |-> MsgSigned, Date |-> 1]
CommitLate(o, n) == [HTMLURL |-> <<o, n, 4>>, Message |-> MsgFix, Date |-> 3]
\* a commit that quotes the subject of a merge, and one that spells it in
\* lower case
MsgRevert == <<"R", "e", "v", "e", "r", "t", " ">> \o MergeMarker
MsgLower == lowerCase(MergeMarker) \o <<" ", "#", "7">>
CommitRevert(o, n) == [HTMLURL |-> <<o, n, 5>>, Message |-> MsgRevert, Date |-> 3]
CommitLower(o, n) == [HTMLURL |-> <<o, n, 6>>, Message |-> MsgLower, Date |-> 2]
CommitLists(o, n) ==
    {<<>>, <<CommitFix(o, n)>>, <<CommitLate(o, n)>>,
     <<CommitMerge(o, n), CommitSigned(o, n)>>,
     <<CommitFix(o, n), CommitSigned(o, n)>>,
     <<CommitRevert(o, n), CommitLower(o, n)>>}
Responses(o, n) ==
    {[err |-> TRUE, commits |-> <<>>]}
    \cup {[err |-> FALSE, commits |-> cs] : cs \in CommitLists(o, n)}
NoResponse == [err |-> FALSE, commits |-> <<>>]

\* lines 70-86, given what ListCommits answers when it is called
getRepositoryChanges(repo, resp) ==
    IF ~parseRepositoryOrgName(repo).ok
    THEN [commits |-> <<>>, err |-> ParseError(repo)]
    ELSE IF resp.err THEN [commits |-> <<>>, err |-> NoError]
    ELSE [commits |-> resp.commits, err |-> NoError]

\* lines 89-91
isMergeCommitAnyCase(commit) == Contains(lowerCase(commit.Message), lowerCase(MergeMarker))

isMergeCommit(commit) == Contains(commit.Message, MergeMarker)

\* lines 128-134
newChange(repo, c) ==
    [repository |-> repo, URL |-> c.HTMLURL,
     Message |-> sanitizeMessage(c.Message), originalTime |-> c.Date]

\* lines 123-135: the closure's loop over result
RECURSIVE filterCommits(_, _)
filterCommits(repo, res) ==
    IF res = <<>> THEN <<>>
    ELSE IF isMergeCommit(Head(res)) THEN filterCommits(repo, Tail(res))
    ELSE <<newChange(repo, Head(res))>> \o filterCommits(repo, Tail(res))

\* line 139
appendOverwrite(shared, local) == local

appendChanges(shared, local) == shared \o local

\* time.Time.After
After(t, u) == t > u

\* line 154: the less function handed to sort.Slice
lessReversed(a, b) == After(a.originalTime, b.originalTime)

less(a, b) == After(b.originalTime, a.originalTime)

\* sort.Slice: any arrangement in which no element is less than an earlier
\* one; the order of elements of which neither is less is not determined
RemoveAt(s, i) == SubSeq(s, 1, i - 1) \o SubSeq(s, i + 1, Len(s))
sortSkipped(s) == {s}

RECURSIVE SortOutcomes(_)
SortOutcomes(s) ==
    IF s = <<>> THEN {<<>>}
    ELSE UNION {{<<s[i]>> \o r : r \in SortOutcomes(RemoveAt(s, i))} :
                   i \in {k \in 1..Len(s) : \A j \in 1..Len(s) : ~less(s[j], s[k])}}

Tasks == 1..Len(repositories)

\* lines 116-117: repository := &repositories[i] is declared in the loop body,
\* so the closure of iteration i of n keeps its own pointer, to element i
captureLast(i, n) == n

capture(i, n) == i

\* lines 76-80: the ListCommits call of a repository; its lower bound is
\* time.Now().Add(-options.Since), the clock being read when the call is made
listCommits(p, opts, t) ==
    [returned |-> TRUE, organization |-> p.organization, name |-> p.name,
     Since |-> [now |-> t, minus |-> opts.Since]]

\* line 137: commitsLock.Lock() goes on when the mutex is unlocked
lockFreeAlways(l) == TRUE

lockFree(l) == l = 0

\* line 138: the deferred commitsLock.Unlock()
unlockForgotten(l) == l

Unlock(l) == 0

\* line 149: return nil, err
errorReturnShared(shared, e) == [returned |-> TRUE, changes |-> shared, err |-> e]

errorReturn(shared, e) == [returned |-> TRUE, changes |-> <<>>, err |-> e]

\* the tasks a worker of the pool is executing
running == {i \in Tasks : status[i] \in {"fetch", "lock", "append", "return"}}

\* workpool.New(options.Concurrency): that many workers, one task each
workerFreeAlways == TRUE

workerFree == Cardinality(running) < options.Concurrency

(***************************************************************************)
(* The work pool is the imported package github.com/xxjwxc/gowp/workpool   *)
(* (line 20), used through New (line 111), Do (line 146) and Wait (line    *)
(* 148). Its behaviour as the caller sees it:                              *)
(*   - New(n) starts n workers; each takes the oldest queued task, calls   *)
(*     it and takes the next one when the call has returned;               *)
(*   - Do never blocks: it puts the task at the end of the queue;          *)
(*   - the first error a task returns is kept in a channel of one slot and *)
(*     closes the pool; a closed pool ignores Do, and its workers take the *)
(*     tasks still queued without calling them;                            *)
(*   - Wait blocks until the queue is empty and every worker is idle, and  *)
(*     returns the kept error, if any.                                     *)
(* The pool's queue and its buffered task channel are one FIFO here.       *)
(***************************************************************************)
ProcInit ==
    /\ repositories \in RepoLists
    /\ options \in [Concurrency : 1..MaxConcurrency, Since : {DefaultSince}]
    /\ pc = "schedule"
    /\ sched = 0
    /\ waitingQueue = <<>>
    /\ closed = FALSE
    /\ errChan = NoError
    /\ status = [i \in Tasks |-> "new"]
    /\ response = [i \in Tasks |-> NoResponse]
    /\ result = [i \in Tasks |-> <<>>]
    /\ change = [i \in Tasks |-> <<>>]
    /\ changes = <<>>
    /\ commitsLock = 0
    /\ ret = NoCall
    /\ captured = [i \in Tasks |-> capture(i, Len(repositories))]
    /\ request = [i \in Tasks |-> NoCall]
    /\ now = StartTime
    /\ ParseIdle /\ SanIdle /\ PayIdle /\ MainIdle

\* lines 145-147: wp.Do(tasks[i]); a closed pool drops the task
Do ==
    /\ pc = "schedule" /\ sched < Len(repositories)
    /\ IF closed
       THEN /\ status' = [status EXCEPT ![sched + 1] = "dropped"]
            /\ UNCHANGED waitingQueue
       ELSE /\ status' = [status EXCEPT ![sched + 1] = "queued"]
            /\ waitingQueue' = Append(waitingQueue, sched + 1)
    /\ sched' = sched + 1
    /\ UNCHANGED <<repositories, options, pc, closed, errChan, response, result,
                   change, changes, commitsLock, ret,
                   captured, request, now, parseVars, sanVars, payVars, mainVars>>

\* a free worker takes the oldest queued task and calls it
Start(i) ==
    /\ waitingQueue # <<>> /\ Head(waitingQueue) = i
    /\ workerFree
    /\ ~closed
    /\ waitingQueue' = Tail(waitingQueue)
    /\ status' = [status EXCEPT ![i] = "fetch"]
    /\ UNCHANGED <<repositories, options, pc, sched, closed, errChan, response,
                   result, change, changes, commitsLock, ret,
                   captured, request, now, parseVars, sanVars, payVars, mainVars>>

\* a free worker of a closed pool takes the oldest queued task and does not
\* call it
Skip(i) ==
    /\ waitingQueue # <<>> /\ Head(waitingQueue) = i
    /\ workerFree
    /\ closed
    /\ waitingQueue' = Tail(waitingQueue)
    /\ status' = [status EXCEPT ![i] = "skipped"]
    /\ UNCHANGED <<repositories, options, pc, sched, closed, errChan, response,
                   result, change, changes, commitsLock, ret,
                   captured, request, now, parseVars, sanVars, payVars, mainVars>>

\* lines 119-135: the closure up to the lock. An error returned by the
\* closure goes to the pool, which keeps the first one and closes itself.
TaskFetch(i) ==
    /\ status[i] = "fetch"
    /\ LET repo == repositories[captured[i]]
           p == parseRepositoryOrgName(repo)
       IN \E resp \in (IF p.ok THEN Responses(p.organization, p.name) ELSE {NoResponse}) :
            LET res == getRepositoryChanges(repo, resp)
            IN IF res.err # NoError
               THEN /\ status' = [status EXCEPT ![i] = "failed"]
                    /\ errChan' = IF errChan = NoError THEN res.err ELSE errChan
                    /\ closed' = (closed \/ errChan = NoError)
                    /\ UNCHANGED <<response, result, change, request>>
               ELSE /\ status' = [status EXCEPT ![i] = "lock"]
                    /\ request' = [request EXCEPT ![i] = listCommits(p, options, now)]
                    /\ response' = [response EXCEPT ![i] = resp]
                    /\ result' = [result EXCEPT ![i] = res.commits]
                    /\ change' = [change EXCEPT ![i] = filterCommits(repo, res.commits)]
                    /\ UNCHANGED <<errChan, closed>>
    /\ UNCHANGED <<repositories, options, pc, sched, waitingQueue, changes,
                   commitsLock, ret, captured, now, parseVars, sanVars, payVars, mainVars>>

\* line 137
TaskLock(i) ==
    /\ status[i] = "lock"
    /\ lockFree(commitsLock)
    /\ commitsLock' = i
    /\ status' = [status EXCEPT ![i] = "append"]
    /\ UNCHANGED <<repositories, options, pc, sched, waitingQueue, closed, errChan,
                   response, result, change, changes, ret,
                   captured, request, now, parseVars, sanVars, payVars, mainVars>>

\* line 139
TaskAppend(i) ==
    /\ status[i] = "append"
    /\ changes' = appendChanges(changes, change[i])
    /\ status' = [status EXCEPT ![i] = "return"]
    /\ UNCHANGED <<repositories, options, pc, sched, waitingQueue, closed, errChan,
                   response, result, change, commitsLock, ret,
                   captured, request, now, parseVars, sanVars, payVars, mainVars>>

\* lines 138 and 140: return nil, the deferred Unlock runs
TaskReturn(i) ==
    /\ status[i] = "return"
    /\ commitsLock' = Unlock(commitsLock)
    /\ status' = [status EXCEPT ![i] = "done"]
    /\ UNCHANGED <<repositories, options, pc, sched, waitingQueue, closed, errChan,
                   response, result, change, changes, ret,
                   captured, request, now, parseVars, sanVars, payVars, mainVars>>

\* wp.Wait() returns once the queue is drained and the workers are idle
waitOver == sched = Len(repositories) /\ waitingQueue = <<>> /\ running = {}

\* lines 148-150
WaitError ==
    /\ pc = "schedule" /\ waitOver
    /\ errChan # NoError
    /\ ret' = errorReturn(changes, errChan)
    /\ pc' = "done"
    /\ UNCHANGED <<repositories, options, sched, waitingQueue, closed, errChan, status,
                   response, result, change, changes, commitsLock,
                   captured, request, now, parseVars, sanVars, payVars, mainVars>>

\* line 148, no error
WaitOk ==
    /\ pc = "schedule" /\ waitOver
    /\ errChan = NoError
    /\ pc' = "sort"
    /\ UNCHANGED <<repositories, options, sched, waitingQueue, closed, errChan, status,
                   response, result, change, changes, commitsLock, ret,
                   captured, request, now, parseVars, sanVars, payVars, mainVars>>

\* lines 153-156
SortReturn ==
    /\ pc = "sort"
    /\ \E sorted \in SortOutcomes(changes) :
          /\ changes' = sorted
          /\ ret' = [returned |-> TRUE, changes |-> sorted, err |-> NoError]
    /\ pc' = "done"
    /\ UNCHANGED <<repositories, options, sched, waitingQueue, closed, errChan, status,
                   response, result, change, commitsLock,
                   captured, request, now, parseVars, sanVars, payVars, mainVars>>

Next ==
    \/ Do
    \/ \E i \in Tasks : Start(i)
    \/ \E i \in Tasks : Skip(i)
    \/ \E i \in Tasks : TaskFetch(i)
    \/ \E i \in Tasks : TaskLock(i)
    \/ \E i \in Tasks : TaskAppend(i)
    \/ \E i \in Tasks : TaskReturn(i)
    \/ WaitError
    \/ WaitOk
    \/ SortReturn

Spec == ProcInit /\ [][Next]_vars

(***************************************************************************)
(* processRepositories with the wall clock advancing while it runs.        *)
(***************************************************************************)
MaxClock == 2

\* time passes between two steps of the program
Tick ==
    /\ pc = "schedule"
    /\ now < StartTime + MaxClock
    /\ now' = now + 1
    /\ UNCHANGED <<repositories, options, pc, sched, waitingQueue, closed, errChan, status,
                   response, result, change, changes, commitsLock, ret, captured, request,
                   parseVars, sanVars, payVars, mainVars>>

ClockNext == Next \/ Tick

SpecClock == ProcInit /\ [][ClockNext]_vars

(***************************************************************************)
(* processRepositories under fair scheduling: the calling goroutine and    *)
(* the pool's workers are goroutines the Go scheduler keeps running, a     *)
(* Lock on a free mutex goes on, and the ListCommits call of every         *)
(* repository returns.                                                     *)
(***************************************************************************)
\* the steps of the pool's workers that take task i from the queue
Dequeue(i) == i \in Tasks /\ (Start(i) \/ Skip(i))

\* the steps of the closure of task i after getRepositoryChanges (lines 137-140)
Critical(i) == i \in Tasks /\ (TaskLock(i) \/ TaskAppend(i) \/ TaskReturn(i))

\* the ListCommits call of task i returns (lines 76-86)
FetchReturns(i) == i \in Tasks /\ TaskFetch(i)

FairScheduling ==
    /\ WF_vars(Do) /\ WF_vars(WaitError) /\ WF_vars(WaitOk) /\ WF_vars(SortReturn)
    /\ \A i \in 1..MaxRepos : WF_vars(Dequeue(i)) /\ WF_vars(Critical(i))

LiveSpec == Spec /\ FairScheduling /\ \A i \in 1..MaxRepos : WF_vars(FetchReturns(i))

\* the same, except that the ListCommits call of the first repository need
\* not return (no timeout is set on the client or on the pool)
HangSpec == Spec /\ FairScheduling /\ \A i \in 2..MaxRepos : WF_vars(FetchReturns(i))

(***************************************************************************)
(* main, from the call of getRepositoriesFromPayload on (lines 228-240).   *)
(* log.Fatal writes the error to standard error and exits with status 1.   *)
(***************************************************************************)
\* lines 211-213
MainConcurrency == 10

\* line 229: err != nil
resolveFailedNever(r) == FALSE

resolveFailed(r) == r.err # None

MainInit ==
    /\ payload \in Payloads /\ repos = NoCall
    /\ mainpc = "resolve" /\ report = NoReport
    /\ ProcIdle /\ ParseIdle /\ SanIdle

\* line 228
MainResolve ==
    /\ mainpc = "resolve"
    /\ repos' = getRepositoriesFromPayload(payload)
    /\ mainpc' = "resolved"
    /\ UNCHANGED <<payload, report, procVars, parseVars, sanVars>>

\* lines 229-231
MainResolveFatal ==
    /\ mainpc = "resolved" /\ resolveFailed(repos)
    /\ mainpc' = "fatal"
    /\ UNCHANGED <<report, procVars, parseVars, sanVars, payVars>>

\* lines 233-234: the call of processRepositories, up to the first wp.Do
MainProcess ==
    /\ mainpc = "resolved" /\ ~resolveFailed(repos)
    /\ repositories' = repos.repositories
    /\ options' = [Concurrency |-> MainConcurrency, Since |-> DefaultSince]
    /\ pc' = "schedule"
    /\ status' = [i \in 1..Len(repos.repositories) |-> "new"]
    /\ response' = [i \in 1..Len(repos.repositories) |-> NoResponse]
    /\ result' = [i \in 1..Len(repos.repositories) |-> <<>>]
    /\ change' = [i \in 1..Len(repos.repositories) |-> <<>>]
    /\ captured' = [i \in 1..Len(repos.repositories) |-> capture(i, Len(repos.repositories))]
    /\ request' = [i \in 1..Len(repos.repositories) |-> NoCall]
    /\ mainpc' = "processing"
    /\ UNCHANGED <<sched, waitingQueue, closed, errChan, changes, commitsLock, ret, now,
                   report, parseVars, sanVars, payVars>>

\* lines 235-237
MainFatal ==
    /\ mainpc = "processing" /\ ret.returned /\ ret.err # NoError
    /\ mainpc' = "fatal"
    /\ UNCHANGED <<report, procVars, parseVars, sanVars, payVars>>

\* lines 239-240: one row for each Change, in the order of the list
MainPrint ==
    /\ mainpc = "processing" /\ ret.returned /\ ret.err = NoError
    /\ report' = [printed |-> TRUE, rows |-> ret.changes]
    /\ mainpc' = "exit"
    /\ UNCHANGED <<procVars, parseVars, sanVars, payVars>>

MainNext ==
    \/ MainResolve
    \/ MainResolveFatal
    \/ MainProcess
    \/ Next
    \/ MainFatal
    \/ MainPrint

SpecMain == MainInit /\ [][MainNext]_vars

(***************************************************************************)
(* Claims about processRepositories.                                       *)
(***************************************************************************)
returnedOk == ret.returned /\ ret.err = NoError

\* the positions of the non-merge commits the remote returned for task i
NonMerge(i) ==
    {k \in 1..Len(response[i].commits) :
        ~Contains(response[i].commits[k].Message, MergeMarker)}

\* the positions of the returned list that hold a Change of commit k of task i
ChangesOf(i, k) ==
    {j \in 1..Len(ret.changes) :
        /\ ret.changes[j].repository = repositories[i]
        /\ ret.changes[j].URL = response[i].commits[k].HTMLURL
        /\ ret.changes[j].originalTime = response[i].commits[k].Date}

RECURSIVE SumNonMerge(_)
SumNonMerge(n) == IF n = 0 THEN 0 ELSE Cardinality(NonMerge(n)) + SumNonMerge(n - 1)

\* C1: whenever the ListCommits call of some repositories failed,
\* processRepositories returns without error, those repositories contribute
\* no Change, and every non-merge commit of every other repository is in the
\* returned list.
C1_PartialFailure ==
    (ret.returned /\ \E i \in Tasks : response[i].err) =>
        /\ ret.err = NoError
        /\ \A i \in Tasks : response[i].err =>
               \A j \in 1..Len(ret.changes) : ret.changes[j].repository # repositories[i]
        /\ \A i \in Tasks : \A k \in NonMerge(i) : ChangesOf(i, k) # {}

\* C1 on lists in which every reference parses
C1_PartialFailureAllParsable ==
    (\A i \in Tasks : parseRepositoryOrgName(repositories[i]).ok) => C1_PartialFailure

\* three repositories, the second one's call failed, the run returned the
\* changes of the first and the third
C1_Witness ==
    /\ returnedOk /\ Len(repositories) = 3
    /\ ~response[1].err /\ response[2].err /\ ~response[3].err
    /\ NonMerge(1) # {} /\ NonMerge(3) # {}
    /\ Len(ret.changes) = Cardinality(NonMerge(1)) + Cardinality(NonMerge(3))

\* C2: a repository reference that does not parse makes neither its task nor
\* processRepositories fail: the call returns without error, with the
\* changes of all other repositories.
C2_UnparsableIsSoft ==
    (ret.returned /\ \E i \in Tasks : ~parseRepositoryOrgName(repositories[i]).ok) =>
        /\ ret.err = NoError
        /\ \A i \in Tasks : \A k \in NonMerge(i) : ChangesOf(i, k) # {}

\* what the code does instead: a run that called the task of an unparsable
\* reference returns that task's error and no changes
C2_UnparsableIsFatal ==
    (ret.returned /\ \E i \in Tasks : status[i] = "failed") =>
        /\ ret.err # NoError
        /\ ret.changes = <<>>

\* C3: the list a successful processRepositories returns is in
\* non-decreasing originalTime order.
C3_SortedOldestFirst ==
    returnedOk =>
        \A i, j \in 1..Len(ret.changes) :
            i < j => ~After(ret.changes[i].originalTime, ret.changes[j].originalTime)

\* three repositories returned times 2, 1 and 3; the result is ordered 1, 2, 3
C3_Witness ==
    /\ returnedOk /\ Len(repositories) = 3
    /\ \A i \in Tasks : Len(change[i]) = 1
    /\ change[1][1].originalTime = 2
    /\ change[2][1].originalTime = 1
    /\ change[3][1].originalTime = 3
    /\ ret.changes = <<change[2][1], change[1][1], change[3][1]>>

\* C4: the list a successful processRepositories returns holds exactly one
\* Change for every non-merge commit that any repository's fetch returned,
\* and nothing else.
C4_NoLostNoDuplicate ==
    returnedOk =>
        /\ \A i \in Tasks : \A k \in NonMerge(i) : Cardinality(ChangesOf(i, k)) = 1
        /\ Len(ret.changes) = SumNonMerge(Len(repositories))

\* three tasks, two workers, every task appended a batch, one of two
\* changes and one that lost a merge commit
C4_Witness ==
    /\ returnedOk /\ Len(repositories) = 3 /\ options.Concurrency = 2
    /\ \A i \in Tasks : change[i] # <<>>
    /\ \E i \in Tasks : Len(change[i]) = 2
    /\ \E i \in Tasks : Len(change[i]) < Len(result[i])
    /\ Len(ret.changes) = 4

\* C5: the number of tasks that have started and not finished never exceeds
\* options.Concurrency.
C5_ConcurrencyBound == Cardinality(running) <= options.Concurrency

\* every worker is busy and a task waits in the queue
C5_Witness ==
    /\ options.Concurrency = 2
    /\ Cardinality(running) = options.Concurrency
    /\ waitingQueue # <<>>

\* C6: when processRepositories starts sorting or has returned, with or
\* without an error, every repository's task has been called and has
\* returned: none is skipped, dropped, queued or running.
C6_AllTasksCompleted ==
    pc \in {"sort", "done"} =>
        \A i \in Tasks : status[i] \in {"done", "failed"}

\* C6 for the runs that return without error
C6_AllTasksCompletedOnSuccess ==
    (pc = "sort" \/ returnedOk) => \A i \in Tasks : status[i] = "done"

\* no task is waiting or running once Wait has returned
C6_NoneInFlight ==
    pc \in {"sort", "done"} =>
        \A i \in Tasks : status[i] \in {"done", "failed", "skipped", "dropped"}

\* once Wait has returned, only the sort changes the shared collection
C6_NoAppendAfterWait ==
    [][(pc = "sort" \/ pc = "done") =>
          (changes' = changes \/ (pc = "sort" /\ changes' \in SortOutcomes(changes)))]_vars

\* the message has the marker, letter by letter, at some position
HasMarker(m) ==
    \E q \in 0..Len(m) :
        /\ q + Len(MergeMarker) <= Len(m)
        /\ \A k \in 1..Len(MergeMarker) : m[q + k] = MergeMarker[k]

\* C11: isMergeCommit holds of a commit exactly when its message has the
\* marker "Merge pull request" in that spelling, and no Change of the list
\* processRepositories returns comes from a commit whose message has it.
C11_MergeCommitsExcluded ==
    /\ \A i \in Tasks : \A k \in 1..Len(result[i]) :
          isMergeCommit(result[i][k]) <=> HasMarker(result[i][k].Message)
    /\ ret.returned =>
          \A j \in 1..Len(ret.changes) : \A i \in Tasks : \A k \in 1..Len(result[i]) :
              result[i][k].HTMLURL = ret.changes[j].URL => ~HasMarker(result[i][k].Message)

\* a run has returned the lower-case commit of a repository and not the
\* commit that quotes the marker, and has left out a merge commit of another
C11_Witness ==
    /\ returnedOk
    /\ \E i \in Tasks :
          /\ Len(result[i]) = 2
          /\ result[i][1].Message = MsgRevert /\ result[i][2].Message = MsgLower
          /\ \E j \in 1..Len(ret.changes) : ret.changes[j].URL = result[i][2].HTMLURL
          /\ \A j \in 1..Len(ret.changes) : ret.changes[j].URL # result[i][1].HTMLURL
    /\ \E i \in Tasks :
          /\ Len(result[i]) = 2 /\ result[i][1].Message = MsgMerge
          /\ \A j \in 1..Len(ret.changes) : ret.changes[j].URL # result[i][1].HTMLURL

\* the tasks inside the critical section of lines 137-140
inCritical == {i \in Tasks : status[i] \in {"append", "return"}}

\* C14: at most one task is in the append critical section, and it is the
\* holder of commitsLock; a task that is fetching, filtering or waiting for
\* the lock does not hold it; and every step of a task that changes the
\* shared collection is taken by the holder of the lock.
C14_LockDiscipline ==
    /\ [](/\ Cardinality(inCritical) <= 1
          /\ \A i \in inCritical : commitsLock = i
          /\ \A i \in Tasks \ inCritical : commitsLock # i)
    /\ [][(pc = "schedule" /\ changes' # changes) =>
             /\ commitsLock \in inCritical
             /\ status[commitsLock] = "append" /\ status'[commitsLock] = "return"
             /\ changes' = changes \o change[commitsLock]]_vars

\* a task has appended its changes under the lock while another task, done
\* with fetching and filtering, waits for the lock
C14_Witness ==
    \E i \in Tasks : \E j \in Tasks :
        /\ status[i] = "return" /\ commitsLock = i
        /\ change[i] # <<>> /\ changes # <<>>
        /\ status[j] = "lock" /\ change[j] # <<>>

\* C15: when every ListCommits call returns and scheduling is fair,
\* processRepositories eventually returns, every queued task having been
\* taken from the queue by a worker, for every Concurrency from 1 on and every
\* number of repositories, zero and more than Concurrency included.
C15_Terminates ==
    <>(/\ pc = "done" /\ ret.returned
       /\ waitingQueue = <<>>
       /\ \A i \in Tasks : status[i] \notin {"new", "queued"})

\* C15 without fairness: before processRepositories has returned some step
\* is always possible, and every step brings the return nearer
stepsLeft(st) ==
    CASE st = "new" -> 6 [] st = "queued" -> 5 [] st = "fetch" -> 4 [] st = "lock" -> 3
      [] st = "append" -> 2 [] st = "return" -> 1 [] OTHER -> 0
RECURSIVE taskStepsLeft(_, _)
taskStepsLeft(sts, n) == IF n = 0 THEN 0 ELSE stepsLeft(sts[n]) + taskStepsLeft(sts, n - 1)
callerStepsLeft(at) == CASE at = "schedule" -> 2 [] at = "sort" -> 1 [] OTHER -> 0
C15_NoDeadlock == pc # "done" => ENABLED Next
C15_Progress ==
    [][callerStepsLeft(pc') + taskStepsLeft(status', Len(status'))
         < callerStepsLeft(pc) + taskStepsLeft(status, Len(status))]_vars

\* a run over more repositories than workers has returned with every task
\* called and finished
C15_Witness ==
    /\ pc = "done" /\ returnedOk
    /\ Len(repositories) > options.Concurrency
    /\ \A i \in Tasks : status[i] = "done"

\* the ListCommits call of the first repository has not returned
firstHangs == 1 \in Tasks /\ status[1] \in {"new", "queued", "fetch"}

\* the tasks of the other repositories whose reference parses
otherTasks == {i \in Tasks \ {1} : parseRepositoryOrgName(repositories[i]).ok}

\* C16: with Concurrency of 2 or more, when the ListCommits call of one
\* repository never returns and those of the others do, the task of every
\* other repository eventually runs and appends its changes.
C16_OthersComplete ==
    (options.Concurrency >= 2) =>
        <>(~firstHangs \/ \A i \in otherTasks : status[i] = "done")

\* C16 on lists in which every reference parses
C16_OthersCompleteAllParsable ==
    (options.Concurrency >= 2 /\ \A i \in Tasks : parseRepositoryOrgName(repositories[i]).ok) =>
        <>(~firstHangs \/ \A i \in otherTasks : status[i] = "done")

\* the Changes of the fetch results, whatever the order the tasks finish in
ExpectedChanges ==
    UNION {{newChange(repositories[i], response[i].commits[k]) : k \in NonMerge(i)} :
              i \in Tasks}

\* no two non-merge commits of the fetch results have the same time
DistinctTimes ==
    \A i \in Tasks : \A j \in Tasks :
        \A k \in NonMerge(i) : \A l \in NonMerge(j) :
            (i # j \/ k # l) => response[i].commits[k].Date # response[j].commits[l].Date

\* what one worker, taking the repositories in list order, leaves after the
\* sort: the Changes by ascending time
SequentialResult ==
    [j \in 1..Cardinality(ExpectedChanges) |->
        CHOOSE e \in ExpectedChanges :
            Cardinality({f \in ExpectedChanges : f.originalTime < e.originalTime}) = j - 1]

called == {i \in Tasks : request[i].returned}

\* C18: the lower bound of every ListCommits call of a run is the clock at
\* the start of the run less options.Since, so all calls of a run send the
\* same lower bound, however long their tasks waited in the queue.
C18_SingleCutoff ==
    /\ \A i \in called : request[i].Since = [now |-> StartTime, minus |-> options.Since]
    /\ \A i \in called : \A j \in called : request[i].Since = request[j].Since

\* every call sends the clock at the time of the call less options.Since:
\* the bounds of a run never decrease from one call to a later one
C18_CutoffAtCall ==
    [][\A i \in Tasks : (~request[i].returned /\ request'[i].returned) =>
          request'[i].Since = [now |-> now, minus |-> options.Since]]_vars

\* C19: there is one task for each index of the repository list; the task of
\* index i reads repositories[i] and no other element, in its ListCommits
\* call and in the repository field of every Change it builds, so every
\* returned Change names the repository its commit was fetched from.
C19_Attribution ==
    /\ DOMAIN status = DOMAIN repositories /\ DOMAIN captured = DOMAIN repositories
    /\ \A i \in Tasks : captured[i] = i
    /\ \A i \in called :
          /\ parseRepositoryOrgName(repositories[i]).ok
          /\ request[i].organization = parseRepositoryOrgName(repositories[i]).organization
          /\ request[i].name = parseRepositoryOrgName(repositories[i]).name
    /\ \A i \in Tasks : \A k \in 1..Len(change[i]) :
          /\ change[i][k].repository = repositories[i]
          /\ \E c \in 1..Len(response[i].commits) : change[i][k].URL = response[i].commits[c].HTMLURL
    /\ ret.returned =>
          \A j \in 1..Len(ret.changes) : \E i \in Tasks : \E k \in 1..Len(change[i]) :
              ret.changes[j] = change[i][k]

\* two workers have run the tasks of two repositories, and the returned list
\* holds Changes of both, each under its own repository
C19_Witness ==
    /\ returnedOk /\ options.Concurrency >= 2
    /\ \E i \in Tasks : \E j \in Tasks :
          /\ i # j /\ repositories[i] # repositories[j]
          /\ change[i] # <<>> /\ change[j] # <<>>
          /\ \E a \in 1..Len(ret.changes) : ret.changes[a] = change[i][1]
          /\ \E b \in 1..Len(ret.changes) : ret.changes[b] = change[j][1]

(***************************************************************************)
(* Claims about main.                                                      *)
(***************************************************************************)
\* C12: when the subprocess exits with a non-zero status or its output is not
\* valid JSON, getRepositoriesFromPayload returns an error and no list, and
\* main goes on to exit with the error: processRepositories is not called, no
\* task exists or has called ListCommits, and no report is printed.
C12_ResolverFailureIsFatal ==
    (payload.kind \in {"exit", "badjson"} /\ repos.returned) =>
        /\ repos.err # None /\ repos.repositories = <<>>
        /\ mainpc \in {"resolved", "fatal"}
        /\ mainpc = "resolved" => ENABLED MainResolveFatal /\ ~ENABLED MainProcess
        /\ pc = None /\ status = <<>> /\ request = <<>> /\ ret = NoCall
        /\ ~report.printed

\* main has exited on output that is not valid JSON
C12_Witness == payload.kind = "badjson" /\ repos.returned /\ mainpc = "fatal"

\* C13: whenever processRepositories has returned an error, the list it
\* returned is empty, whatever the tasks had appended to the shared
\* collection, and main prints no report.
C13_ErrorDiscardsChanges ==
    (ret.returned /\ ret.err # NoError) =>
        /\ ret.changes = <<>>
        /\ mainpc \in {"processing", "fatal"}
        /\ ~report.printed

\* main has exited on the error of a run whose tasks had appended changes
C13_Witness ==
    /\ ret.returned /\ ret.err # NoError
    /\ changes # <<>>
    /\ mainpc = "fatal"

(***************************************************************************)
(* Claims about the pure functions.                                        *)
(***************************************************************************)
\* the non-empty source-location values of the tags, in tag order
RECURSIVE SourceLocations(_)
SourceLocations(tags) ==
    IF tags = <<>> THEN <<>>
    ELSE LET a == Head(tags).Annotations
         IN (IF SourceLocationKey \in DOMAIN a /\ a[SourceLocationKey] # <<>>
             THEN <<a[SourceLocationKey]>> ELSE <<>>) \o SourceLocations(Tail(tags))

FirstIndex(s, v) == CHOOSE i \in 1..Len(s) : s[i] = v /\ \A j \in 1..(i - 1) : s[j] # v

\* C7: the list getRepositoriesFromPayload builds holds every non-empty
\* source-location value of the tags once and no other value, ordered by
\* first appearance among the tags.
C7_DedupFirstAppearance ==
    (repos.returned /\ payload.kind = "json") =>
        LET r == repos.repositories
            vals == SourceLocations(payload.tags)
        IN /\ repos.err = None
           /\ \A i, j \in 1..Len(r) : i # j => r[i] # r[j]
           /\ {r[i] : i \in 1..Len(r)} = {vals[i] : i \in 1..Len(vals)}
           /\ \A i, j \in 1..Len(r) :
                  i < j => FirstIndex(vals, r[i]) < FirstIndex(vals, r[j])

\* a call over tags with a repeated value, a tag without the annotation and
\* a later new value, which returned the two values in order
C7_Witness ==
    /\ repos.returned /\ payload.kind = "json"
    /\ Len(payload.tags) = 3
    /\ SourceLocations(payload.tags) = <<RepoB, RepoB, RepoA>>
    /\ repos.repositories = <<RepoB, RepoA>>

\* the '/'-separated shape the parser is claimed to accept
TwoNonEmptySegments(r) ==
    /\ HasPrefix(r, Prefix)
    /\ LET rest == SubSeq(r, Len(Prefix) + 1, Len(r))
           slashes == {i \in 1..Len(rest) : rest[i] = "/"}
       IN /\ Cardinality(slashes) = 1
          /\ 1 \notin slashes
          /\ Len(rest) \notin slashes

\* C8: parseRepositoryOrgName reports a reference as parsed only if it has
\* the prefix https://github.com/ and the remainder is exactly two non-empty
\* segments separated by '/'; every other input is reported not parsed.
C8_ParsedOnlyTwoNonEmpty ==
    parsed.returned => (parsed.ok <=> TwoNonEmptySegments(repository))

\* a call on a reference with an empty name that was reported as parsed
C8_Witness ==
    /\ parsed.returned /\ parsed.ok
    /\ repository = Prefix \o <<"o", "/">>

\* the lines of a result of sanitizeMessage (the empty result has none)
ResultLines(s) == IF s = <<>> THEN <<>> ELSE Split(s, "\n")

\* the number of characters of a string, as utf8.RuneCountInString counts
\* them: a well-formed two-byte sequence is one character, any other byte
\* is one character
RuneCount(s) ==
    Len(s) - Cardinality({i \in 2..Len(s) : s[i - 1] = EAcute[1] /\ s[i] = EAcute[2]})

\* C9: every line of every result of sanitizeMessage is at most 84
\* characters long, does not contain "Signed-off-by" and is neither empty nor
\* all whitespace.
C9_SanitizedLines ==
    \A k \in 1..Len(sanitized) :
        LET ls == ResultLines(sanitized[k])
        IN \A i \in 1..Len(ls) :
               /\ RuneCount(ls[i]) <= LineLimit + Len(Marker)
               /\ ~Contains(ls[i], SignedOffBy)
               /\ \E c \in 1..Len(ls[i]) : ~IsSpace(ls[i][c])

\* a call on a message with a signature line and an over-long line, which
\* returned a single line of exactly 84 characters
C9_Witness ==
    /\ Len(sanitized) >= 1
    /\ \E i \in 1..Len(Split(msg, "\n")) : Contains(Split(msg, "\n")[i], SignedOffBy)
    /\ Len(ResultLines(sanitized[1])) = 1
    /\ RuneCount(sanitized[1]) = LineLimit + Len(Marker)

\* a message that is already sanitized: no signature line, no line of more
\* than 80 characters
AlreadySanitized(m) ==
    \A i \in 1..Len(Split(m, "\n")) :
        /\ ~Contains(Split(m, "\n")[i], SignedOffBy)
        /\ RuneCount(Split(m, "\n")[i]) <= LineLimit

\* C10: sanitizeMessage returns an already sanitized result of
\* sanitizeMessage (no signature line, every line at most 80 characters)
\* unchanged.
C10_Idempotent ==
    (Len(sanitized) = 2 /\ AlreadySanitized(sanitized[1])) =>
        sanitized[2] = sanitized[1]

\* the same for results whose lines are at most 80 bytes long, which is what
\* len(l) > 80 on line 102 tests
C10_IdempotentBytes ==
    (Len(sanitized) = 2
        /\ \A i \in 1..Len(Split(sanitized[1], "\n")) :
               Len(Split(sanitized[1], "\n")[i]) <= LineLimit) =>
        sanitized[2] = sanitized[1]

\* a second call on a non-empty result of lines of at most 80 bytes that the
\* first call had to truncate and to strip of a line
C10_WitnessBytes ==
    /\ Len(sanitized) = 2
    /\ \A i \in 1..Len(Split(sanitized[1], "\n")) :
           Len(Split(sanitized[1], "\n")[i]) <= LineLimit
    /\ sanitized[1] # <<>>
    /\ Contains(sanitized[1], Marker)
    /\ Len(ResultLines(sanitized[1])) < Len(Split(msg, "\n"))
    /\ sanitized[2] = sanitized[1]

====
